---------------------------- MODULE Spec2Model ----------------------------
(***************************************************************************)
(* Range Trader: opening-range fences, regime classification, auto-trade   *)
(* dashboard and session tracker.                                          *)
(*                                                                         *)
(* Two scripts of the repository are modelled side by side:                *)
(*   range_trader.py      calc_levels, classify_mode, show_dashboard       *)
(*   range_trader_app.py  calc_range_levels, breakout_status,              *)
(*                        show_dashboard                                   *)
(*                                                                         *)
(* Numbers.  Candle fields are integers (price points) or NaN.  Every      *)
(* value the range calculator returns is kept exactly, in fixed point:     *)
(* one price point is Scale units.  Scale is a multiple of 4 * n for every *)
(* n in 1..14, so the mean over up to 14 bars and the quarter cushion are  *)
(* exact integers.  Binary floating point rounding is not modelled.        *)
(***************************************************************************)
EXTENDS Integers, Sequences, FiniteSets, TLC

VARIABLES
    df_in,        \* harness: the frame handed to the range calculators
    rt_levels,    \* harness: what calc_levels returned for df_in
    app_levels,   \* harness: what calc_range_levels returned for df_in
    cl_args,      \* harness: (price, high_fence, low_fence) handed to the classifiers
    cl_rt,        \* harness: what classify_mode returned for cl_args
    cl_app,       \* harness: what breakout_status returned for cl_args
    script,       \* which script Streamlit runs: "range_trader" or "range_trader_app"
    FINNHUB_KEY,  \* st.secrets: whether a Finnhub key is configured
    logged_in,    \* st.session_state.logged_in
    user,         \* st.session_state.user
    trade_log,    \* st.session_state.trade_log: user -> entries
    auto_trade,   \* st.session_state.auto_trade: user -> flag
    w_symbol,     \* the "Ticker Symbol" widget, upper-cased
    nruns,        \* dashboard runs so far
    cycle,        \* what the latest run of show_dashboard did
    streak,       \* auto orders submitted while the mode stayed the same
    session,      \* the TrackedSession
    crossings,    \* the fence crossings evaluate was called with, this tracking session
    last_call,    \* the latest tracker call: its name, arguments and the session before it
    entered,      \* what the latest click on Log In was made with
    watched,      \* the fences of the first run since the symbol was last changed
    clock,        \* time.time(), in seconds
    POLYGON_KEY,  \* st.secrets: whether a Polygon key is configured
    candle_cache, \* st.session_state.candle_cache: symbol -> entry or None
    cache_from,   \* which vendor's response each cache entry was built from
    last_req,     \* when Finnhub was last sent a request for each symbol
    fetched       \* harness: what the latest fetch call returned and requested

harnessCalcVars == <<df_in, rt_levels, app_levels>>
harnessClassVars == <<cl_args, cl_rt, cl_app>>
harnessFetchVars == <<clock, POLYGON_KEY, candle_cache, cache_from, last_req, fetched>>
harnessVars == <<df_in, rt_levels, app_levels, cl_args, cl_rt, cl_app,
                 clock, POLYGON_KEY, candle_cache, cache_from, last_req, fetched>>
sessionVars == <<logged_in, user, trade_log, auto_trade>>
appVars == <<script, FINNHUB_KEY, logged_in, user, trade_log, auto_trade,
             w_symbol, nruns, cycle, streak, entered, watched>>
trackVars == <<session, crossings, last_call>>
vars == <<df_in, rt_levels, app_levels, cl_args, cl_rt, cl_app,
          script, FINNHUB_KEY, logged_in, user, trade_log, auto_trade,
          w_symbol, nruns, cycle, streak, session, crossings, last_call,
          entered, watched, clock, POLYGON_KEY, candle_cache, cache_from,
          last_req, fetched>>

---------------------------------------------------------------------------
(* Values *)

\* Python's None.
None == [tag |-> "None"]

\* A function or step that has not run yet in this behaviour.
NotRun == [tag |-> "NotRun"]

\* IEEE NaN, as pandas stores a missing (null) candle field.
NaN == -(2^30)

isna(x) == x = NaN

\* Fixed point: one price point.
Scale == 4 * 5 * 7 * 8 * 9 * 11 * 13

\* A number of price points as a fixed-point value.
F(x) == IF isna(x) THEN NaN ELSE x * Scale

\* Float arithmetic and comparison: NaN propagates through + - *, and every
\* comparison with NaN is false.
FAdd(a, b) == IF isna(a) \/ isna(b) THEN NaN ELSE a + b
FSub(a, b) == IF isna(a) \/ isna(b) THEN NaN ELSE a - b
FGt(a, b) == ~isna(a) /\ ~isna(b) /\ a > b
FLt(a, b) == ~isna(a) /\ ~isna(b) /\ a < b
FGe(a, b) == ~isna(a) /\ ~isna(b) /\ a >= b

Min2(a, b) == IF a <= b THEN a ELSE b

---------------------------------------------------------------------------
(* pandas: the DataFrame operations the calculators use *)

\* head(n) on rows: the first n rows, or all of them when there are fewer.
head(df, n) == SubSeq(df, 1, Min2(n, Len(df)))

\* tail(n) on rows: the last n rows, or all of them when there are fewer.
tail(df, n) == SubSeq(df, Len(df) - Min2(n, Len(df)) + 1, Len(df))

\* Series.max(): NaN entries are skipped; NaN when nothing is left.
col_max(vals) ==
    LET ok == {i \in DOMAIN vals : ~isna(vals[i])}
    IN  IF ok = {} THEN NaN
        ELSE vals[CHOOSE i \in ok : \A j \in ok : vals[i] >= vals[j]]

\* Series.min(): NaN entries are skipped; NaN when nothing is left.
col_min(vals) ==
    LET ok == {i \in DOMAIN vals : ~isna(vals[i])}
    IN  IF ok = {} THEN NaN
        ELSE vals[CHOOSE i \in ok : \A j \in ok : vals[i] <= vals[j]]

RECURSIVE SumSkipNa(_)
SumSkipNa(vals) ==
    IF vals = <<>> THEN 0
    ELSE (IF isna(Head(vals)) THEN 0 ELSE Head(vals)) + SumSkipNa(Tail(vals))

\* Series.mean(): the mean of the entries that are not NaN, in fixed point;
\* NaN when nothing is left.
col_mean(vals) ==
    LET n == Cardinality({i \in DOMAIN vals : ~isna(vals[i])})
    IN  IF n = 0 THEN NaN ELSE (SumSkipNa(vals) * Scale) \div n

\* A DataFrame of candles: its rows in index order.
DataFrame(rows) == [tag |-> "df", rows |-> rows]

\* len(df)
len(df) == Len(df.rows)

\* df.head(n) and df.tail(n)
df_head(df, n) == DataFrame(head(df.rows, n))
df_tail(df, n) == DataFrame(tail(df.rows, n))

\* The columns df["High"], df["Low"] and the row-wise df["High"] - df["Low"].
High(df) == [i \in DOMAIN df.rows |-> df.rows[i].High]
Low(df) == [i \in DOMAIN df.rows |-> df.rows[i].Low]
HighMinusLow(df) == [i \in DOMAIN df.rows |-> FSub(df.rows[i].High, df.rows[i].Low)]

\* df["Close"].iloc[-1]
last_close(df) == df.rows[len(df)].Close

---------------------------------------------------------------------------
(* Range / fence logic *)

\* atr_lookback=14, the default of calc_levels and calc_range_levels.
ATR_LOOKBACK == 14

\* cushion_frac=0.25, the default of both calculators, in hundredths.
CUSHION_FRAC_PCT == 25

\* The opening slice of both calculators: head(6), about 30 minutes of 5m bars.
OPENING_BARS == 6

\* calc_levels with the opening range taken over the whole frame.
calc_levels_open_all(df_5m, atr_lookback, cushion_pct) ==
    IF df_5m = None \/ len(df_5m) < 6 THEN None
    ELSE
    LET first_slice == df_5m
        opening_high == F(col_max(High(first_slice)))
        opening_low == F(col_min(Low(first_slice)))
        recent_slice == df_tail(df_5m, atr_lookback)
        mean_hl == col_mean(HighMinusLow(recent_slice))
        atr_est == IF isna(mean_hl) \/ mean_hl = 0 THEN F(1) ELSE mean_hl
        cushion == (atr_est * cushion_pct) \div 100
    IN  [tag |-> "levels",
         atr |-> atr_est,
         opening_high |-> opening_high,
         opening_low |-> opening_low,
         high_fence |-> FAdd(opening_high, cushion),
         low_fence |-> FSub(opening_low, cushion),
         last_price |-> F(last_close(df_5m))]

\* calc_levels with the volatility taken over the first bars instead of the last.
calc_levels_head_atr(df_5m, atr_lookback, cushion_pct) ==
    IF df_5m = None \/ len(df_5m) < 6 THEN None
    ELSE
    LET first_slice == df_head(df_5m, OPENING_BARS)
        opening_high == F(col_max(High(first_slice)))
        opening_low == F(col_min(Low(first_slice)))
        recent_slice == df_head(df_5m, atr_lookback)
        mean_hl == col_mean(HighMinusLow(recent_slice))
        atr_est == IF isna(mean_hl) \/ mean_hl = 0 THEN F(1) ELSE mean_hl
        cushion == (atr_est * cushion_pct) \div 100
    IN  [tag |-> "levels",
         atr |-> atr_est,
         opening_high |-> opening_high,
         opening_low |-> opening_low,
         high_fence |-> FAdd(opening_high, cushion),
         low_fence |-> FSub(opening_low, cushion),
         last_price |-> F(last_close(df_5m))]

\* calc_levels with the cushion added to the low fence instead of subtracted.
calc_levels_low_plus(df_5m, atr_lookback, cushion_pct) ==
    IF df_5m = None \/ len(df_5m) < 6 THEN None
    ELSE
    LET first_slice == df_head(df_5m, OPENING_BARS)
        opening_high == F(col_max(High(first_slice)))
        opening_low == F(col_min(Low(first_slice)))
        recent_slice == df_tail(df_5m, atr_lookback)
        mean_hl == col_mean(HighMinusLow(recent_slice))
        atr_est == IF isna(mean_hl) \/ mean_hl = 0 THEN F(1) ELSE mean_hl
        cushion == (atr_est * cushion_pct) \div 100
    IN  [tag |-> "levels",
         atr |-> atr_est,
         opening_high |-> opening_high,
         opening_low |-> opening_low,
         high_fence |-> FAdd(opening_high, cushion),
         low_fence |-> FAdd(opening_low, cushion),
         last_price |-> F(last_close(df_5m))]

\* range_trader.py calc_levels(df_5m, atr_lookback=14, cushion_frac=0.25);
\* cushion_pct is cushion_frac in hundredths.
calc_levels(df_5m, atr_lookback, cushion_pct) ==
    IF df_5m = None \/ len(df_5m) < 6 THEN None
    ELSE
    LET first_slice == df_head(df_5m, OPENING_BARS)
        opening_high == F(col_max(High(first_slice)))
        opening_low == F(col_min(Low(first_slice)))
        recent_slice == df_tail(df_5m, atr_lookback)
        mean_hl == col_mean(HighMinusLow(recent_slice))
        atr_est == IF isna(mean_hl) \/ mean_hl = 0 THEN F(1) ELSE mean_hl
        cushion == (atr_est * cushion_pct) \div 100
    IN  [tag |-> "levels",
         atr |-> atr_est,
         opening_high |-> opening_high,
         opening_low |-> opening_low,
         high_fence |-> FAdd(opening_high, cushion),
         low_fence |-> FSub(opening_low, cushion),
         last_price |-> F(last_close(df_5m))]

\* range_trader_app.py calc_range_levels(df_5m, atr_lookback=14, cushion_frac=0.25)
calc_range_levels(df_5m, atr_lookback, cushion_pct) ==
    IF df_5m = None \/ len(df_5m) = 0 THEN None
    ELSE
    LET first_slice == df_head(df_5m, OPENING_BARS)
        opening_high == F(col_max(High(first_slice)))
        opening_low == F(col_min(Low(first_slice)))
        recent_slice == df_tail(df_5m, atr_lookback)
        mean_hl == col_mean(HighMinusLow(recent_slice))
        atr_est == IF isna(mean_hl) \/ mean_hl = 0 THEN F(1) ELSE mean_hl
        cushion == (atr_est * cushion_pct) \div 100
    IN  [tag |-> "levels",
         atr |-> atr_est,
         opening_high |-> opening_high,
         opening_low |-> opening_low,
         high_fence |-> FAdd(opening_high, cushion),
         low_fence |-> FSub(opening_low, cushion),
         last_price |-> F(last_close(df_5m))]

\* classify_mode with the fence itself counted as outside the range.
classify_mode_ge(last_price, high_fence, low_fence) ==
    IF FGe(last_price, high_fence) THEN "BREAKOUT"
    ELSE IF FLt(last_price, low_fence) THEN "BREAKDOWN"
    ELSE "RANGE_HELD"

\* range_trader.py
classify_mode(last_price, high_fence, low_fence) ==
    IF FGt(last_price, high_fence) THEN "BREAKOUT"
    ELSE IF FLt(last_price, low_fence) THEN "BREAKDOWN"
    ELSE "RANGE_HELD"

\* range_trader_app.py
breakout_status(price, high_fence, low_fence) ==
    IF FGt(price, high_fence) THEN "BREAKOUT"
    ELSE IF FLt(price, low_fence) THEN "BREAKDOWN"
    ELSE "RANGE_HELD"

---------------------------------------------------------------------------
(* Session state, login and main() *)

Scripts == {"range_trader", "range_trader_app"}

\* USER_PINS of each script.
USER_PINS(s) ==
    IF s = "range_trader"
    THEN [dad |-> "1234", neil |-> "1234", lucas |-> "1234", guest |-> "1234"]
    ELSE [dad |-> "1111", neil |-> "2222", lucas |-> "3333", guest |-> "0000"]

Users == {"dad", "neil", "lucas", "guest"}

\* st.session_state.user before a login.
NoUser == "<None>"

\* init_state / init_user_state: the session state a new browser session gets.
init_state ==
    /\ logged_in = FALSE
    /\ user = NoUser
    /\ trade_log = [u \in Users |-> <<>>]
    /\ auto_trade = [u \in Users |-> FALSE]

\* log_trade(user, message): append one entry to that user's log.  The entry's
\* time (datetime.now()) is left out.
log_trade(log, u, entry) == [log EXCEPT ![u] = Append(@, entry)]

\* The log_trade calls of one run, in order.
RECURSIVE LogEach(_, _, _)
LogEach(log, u, entries) ==
    IF entries = <<>> THEN log
    ELSE LogEach(log_trade(log, u, Head(entries)), u, Tail(entries))

\* No run of equal modes is under way.
NoStreak == [symbol |-> "", mode |-> "None", n |-> 0]

\* No run has computed fences since the symbol was last changed.
NoWatch == [tag |-> "NoWatch"]

\* The browser session before any click or run.
FreshSession ==
    /\ init_state
    /\ w_symbol = "SPY"
    /\ nruns = 0
    /\ cycle = NotRun
    /\ streak = NoStreak
    /\ entered = NotRun
    /\ watched = NoWatch

\* The session before anything ran, for the specifications that only
\* exercise the pure functions.
AppIdle ==
    /\ script = "range_trader"
    /\ FINNHUB_KEY = TRUE
    /\ FreshSession

---------------------------------------------------------------------------
(* Session tracker: TrackedSession, evaluate and settle.  The repository's
   src/ holds no session tracker, so these definitions follow sections 3,
   4.3 and 4.4 of the specification. *)

\* A null price (float|null): tracker prices are never negative here.
Null == -1

\* A TrackedSession nobody has started: IDLE.
IdleSession ==
    [symbol |-> "", high_fence |-> 0, low_fence |-> 0, tracking |-> FALSE,
     breakout_triggered |-> FALSE, breakout_price |-> Null,
     breakdown_triggered |-> FALSE, breakdown_price |-> Null,
     settlement_mode |-> "None", realized_pl |-> 0]

NoCrossings ==
    [first_high |-> Null, last_high |-> Null, back_high |-> FALSE, again_high |-> FALSE,
     first_low |-> Null, last_low |-> Null, back_low |-> FALSE, again_low |-> FALSE,
     order |-> ""]

TrackIdle == session = IdleSession /\ crossings = NoCrossings /\ last_call = NotRun

\* IDLE, TRACKING or SETTLED, read off the fields.
state_of(s) ==
    IF s.tracking THEN "TRACKING"
    ELSE IF s.settlement_mode # "None" THEN "SETTLED" ELSE "IDLE"

\* start(fences): captures the fences and resets the latches.
start(symbol, high_fence, low_fence) ==
    [IdleSession EXCEPT !.symbol = symbol, !.high_fence = high_fence,
                        !.low_fence = low_fence, !.tracking = TRUE]

\* evaluate with the breakout latch re-armed on every crossing.
evaluate_relatch(s, current_price) ==
    IF ~s.tracking THEN s
    ELSE
    LET s1 == IF current_price > s.high_fence
              THEN [s EXCEPT !.breakout_triggered = TRUE, !.breakout_price = current_price]
              ELSE s
    IN  IF current_price < s1.low_fence /\ ~s1.breakdown_triggered
        THEN [s1 EXCEPT !.breakdown_triggered = TRUE, !.breakdown_price = current_price]
        ELSE s1

\* evaluate without the test of tracking.
evaluate_untracked(s, current_price) ==
    LET s1 == IF current_price > s.high_fence /\ ~s.breakout_triggered
              THEN [s EXCEPT !.breakout_triggered = TRUE, !.breakout_price = current_price]
              ELSE s
    IN  IF current_price < s1.low_fence /\ ~s1.breakdown_triggered
        THEN [s1 EXCEPT !.breakdown_triggered = TRUE, !.breakdown_price = current_price]
        ELSE s1

\* evaluate(session, current_price), section 4.3: steps 1 and 2 in order, and a
\* no-op when tracking is false.
evaluate(s, current_price) ==
    IF ~s.tracking THEN s
    ELSE
    LET s1 == IF current_price > s.high_fence /\ ~s.breakout_triggered
              THEN [s EXCEPT !.breakout_triggered = TRUE, !.breakout_price = current_price]
              ELSE s
    IN  IF current_price < s1.low_fence /\ ~s1.breakdown_triggered
        THEN [s1 EXCEPT !.breakdown_triggered = TRUE, !.breakdown_price = current_price]
        ELSE s1

\* The rules of settle with breakdown tested before breakout.
settle_rule_breakdown_first(s, final_price, payout_size, dollars_per_point) ==
    IF ~s.breakout_triggered /\ ~s.breakdown_triggered
    THEN [mode |-> "RANGE_HELD", pl |-> payout_size]
    ELSE IF s.breakdown_triggered
    THEN [mode |-> "BREAKDOWN", pl |-> (s.breakdown_price - final_price) * dollars_per_point]
    ELSE [mode |-> "BREAKOUT", pl |-> (final_price - s.breakout_price) * dollars_per_point]

\* settle(session, final_price, payout_size, dollars_per_point), section 4.4:
\* the first matching rule gives (mode, pl); then settlement_mode and
\* realized_pl are set and tracking becomes false.  Latches and prices stay.
settle_rule(s, final_price, payout_size, dollars_per_point) ==
    IF ~s.breakout_triggered /\ ~s.breakdown_triggered
    THEN [mode |-> "RANGE_HELD", pl |-> payout_size]
    ELSE IF s.breakout_triggered
    THEN [mode |-> "BREAKOUT", pl |-> (final_price - s.breakout_price) * dollars_per_point]
    ELSE IF s.breakdown_triggered
    THEN [mode |-> "BREAKDOWN", pl |-> (s.breakdown_price - final_price) * dollars_per_point]
    ELSE [mode |-> "UNKNOWN", pl |-> 0]

settle(s, final_price, payout_size, dollars_per_point) ==
    LET r == settle_rule(s, final_price, payout_size, dollars_per_point)
    IN  [s EXCEPT !.settlement_mode = r.mode, !.realized_pl = r.pl, !.tracking = FALSE]

---------------------------------------------------------------------------
(* Harness for the pure functions: inputs are drawn at Init, the actions call
   the functions with the defaults their callers use. *)

\* Longest run of one bar in a generated frame; a frame has up to three runs.
MaxRun == 6

\* Largest price handed directly to the classifiers.
MaxClassPrice == 3

Bar(h, l, c) == [High |-> h, Low |-> l, Close |-> c]

FlatBar == Bar(10, 10, 10)        \* High == Low
NormBar == Bar(12, 8, 10)
UpBar == Bar(16, 12, 14)
DownBar == Bar(8, 4, 6)
BadBar == Bar(8, 12, 10)          \* malformed: High < Low
NaNBar == Bar(NaN, NaN, NaN)      \* a bar of nulls

BarSet == {FlatBar, NormBar, UpBar, DownBar, BadBar, NaNBar}

Rep(b, k) == [i \in 1..k |-> b]

\* Frames of up to three runs of equal bars, and the absent frame.
CalcInputs ==
    {None} \cup
    {DataFrame(Rep(b1, k1) \o Rep(b2, k2) \o Rep(b3, k3)) :
        b1 \in BarSet, b2 \in BarSet, b3 \in BarSet,
        k1 \in 0..MaxRun, k2 \in 0..MaxRun, k3 \in 0..MaxRun}

ClassPrices == (0..MaxClassPrice) \cup {NaN}

ClassInputs == [last_price : ClassPrices, high_fence : ClassPrices, low_fence : ClassPrices]

HarnessCalcIdle == df_in = None /\ rt_levels = NotRun /\ app_levels = NotRun
HarnessClassIdle == cl_args = NotRun /\ cl_rt = "NotRun" /\ cl_app = "NotRun"

\* The symbols the fetch functions are called with.
FetchSymbols == {"SPY", "QQQ"}

\* No request was sent yet.
Never == -1

\* candle_cache = {} as init_state leaves it, at time 0.
EmptyCache ==
    /\ clock = 0
    /\ candle_cache = [sym \in FetchSymbols |-> None]
    /\ cache_from = [sym \in FetchSymbols |-> ""]
    /\ last_req = [sym \in FetchSymbols |-> Never]
    /\ fetched = NotRun

HarnessFetchIdle == POLYGON_KEY = FALSE /\ EmptyCache

\* calc_levels(df) as show_dashboard and beginner_scan of range_trader.py call it.
CallCalcLevels ==
    /\ rt_levels = NotRun
    /\ rt_levels' = calc_levels(df_in, ATR_LOOKBACK, CUSHION_FRAC_PCT)
    /\ UNCHANGED <<df_in, app_levels, harnessClassVars, harnessFetchVars, appVars, trackVars>>

\* calc_range_levels(df) as show_dashboard of range_trader_app.py calls it.
CallCalcRangeLevels ==
    /\ app_levels = NotRun
    /\ app_levels' = calc_range_levels(df_in, ATR_LOOKBACK, CUSHION_FRAC_PCT)
    /\ UNCHANGED <<df_in, rt_levels, harnessClassVars, harnessFetchVars, appVars, trackVars>>

CallClassifyMode ==
    /\ cl_rt = "NotRun"
    /\ cl_rt' = classify_mode(cl_args.last_price, cl_args.high_fence, cl_args.low_fence)
    /\ UNCHANGED <<cl_args, cl_app, harnessCalcVars, harnessFetchVars, appVars, trackVars>>

CallBreakoutStatus ==
    /\ cl_app = "NotRun"
    /\ cl_app' = breakout_status(cl_args.last_price, cl_args.high_fence, cl_args.low_fence)
    /\ UNCHANGED <<cl_args, cl_rt, harnessCalcVars, harnessFetchVars, appVars, trackVars>>

InitCalc ==
    /\ df_in \in CalcInputs
    /\ rt_levels = NotRun
    /\ app_levels = NotRun
    /\ HarnessClassIdle
    /\ HarnessFetchIdle
    /\ AppIdle
    /\ TrackIdle

NextCalc == CallCalcLevels \/ CallCalcRangeLevels

SpecCalc == InitCalc /\ [][NextCalc]_vars

InitClassify ==
    /\ cl_args \in ClassInputs
    /\ cl_rt = "NotRun"
    /\ cl_app = "NotRun"
    /\ HarnessCalcIdle
    /\ HarnessFetchIdle
    /\ AppIdle
    /\ TrackIdle

NextClassify == CallClassifyMode \/ CallBreakoutStatus

SpecClassify == InitClassify /\ [][NextClassify]_vars

---------------------------------------------------------------------------
(* Vendors: what one HTTP call can come back with *)

\* Candle frames a Finnhub response can carry.
EmptyFrame == DataFrame(<<>>)
ShortFrame == DataFrame(Rep(NormBar, 3))
RangeFrame == DataFrame(Rep(NormBar, 7))
BreakoutFrame == DataFrame(Rep(NormBar, 6) \o <<UpBar>>)
BreakdownFrame == DataFrame(Rep(NormBar, 6) \o <<DownBar>>)
ShiftedFrame == DataFrame(Rep(UpBar, 6) \o <<NormBar>>)    \* a later, higher opening window

DashFrames == {EmptyFrame, ShortFrame, RangeFrame, BreakoutFrame, BreakdownFrame, ShiftedFrame}

\* requests.get(url) of the candle endpoint: it raises, answers with a status
\* other than 200, answers 200 with s != "ok", or answers 200 with candles.
FeedOutcomes ==
    {[kind |-> k, df |-> None] : k \in {"raise", "http_error", "no_data"}}
        \cup {[kind |-> "ok", df |-> f] : f \in DashFrames}

\* requests.post(.../orders): it raises, or answers with a status code.
OrderOutcomes ==
    {[raised |-> TRUE, status_code |-> 0]}
        \cup {[raised |-> FALSE, status_code |-> c] : c \in {200, 201, 422}}

\* requests.get(.../account): "ok", "error" (status other than 200) or "raise".
AcctOutcomes == {"ok", "error", "raise"}

---------------------------------------------------------------------------
(* range_trader.py: the cached candle fetch *)

\* Python's None where the other values are strings (err, source_name).
NoneStr == "<None>"

\* `if age < 60`: the age below which a cache entry is reused, in seconds.
CACHE_TTL == 60

\* Frames a vendor's answer can carry.
FetchFrames == {EmptyFrame, RangeFrame}

\* requests.get of a vendor: it raises; it answers with a status other than
\* 200; it answers 200 with a body r.json() or the frame construction chokes on
\* ("bad_body", an exception nothing catches); it answers 200 without "ok";
\* or it answers 200 with candles, possibly none.
FinnhubOutcomes ==
    {[kind |-> k, status_code |-> 0, df |-> None] : k \in {"raise", "bad_body", "no_data"}}
        \cup {[kind |-> "status", status_code |-> c, df |-> None] : c \in {403, 500}}
        \cup {[kind |-> "ok", status_code |-> 200, df |-> f] : f \in FetchFrames}

PolygonOutcomes ==
    {[kind |-> k, status_code |-> 0, df |-> None] : k \in {"raise", "bad_body", "no_data"}}
        \cup {[kind |-> "status", status_code |-> c, df |-> None] : c \in {500}}
        \cup {[kind |-> "ok", status_code |-> 200, df |-> f] : f \in FetchFrames}

\* df.empty
empty(df) == len(df) = 0

\* What one fetch function hands back, with what it did on the way: the cache
\* after it, the HTTP requests it sent, whether it answered from the cache and
\* whether an exception left it.
FetchResult(df, err, cache, requests, hit, raised) ==
    [df |-> df, err |-> err, cache |-> cache, requests |-> requests, hit |-> hit,
     raised |-> raised]

\* fetch_finnhub_5m with the cache consulted only when no key is configured.
fetch_finnhub_5m_uncached(symbol, now_epoch, cache, finnhub_key, outcome) ==
    LET cache_entry == cache[symbol]
        Fail(err, n) == FetchResult(None, err, cache, n, FALSE, FALSE)
    IN  IF ~finnhub_key /\ cache_entry # None /\ now_epoch - cache_entry.t < CACHE_TTL
        THEN FetchResult(cache_entry.df, NoneStr, cache, 0, TRUE, FALSE)
        ELSE IF ~finnhub_key THEN Fail("No FINNHUB_KEY in secrets", 0)
        ELSE IF outcome.kind = "raise" THEN Fail("Finnhub network error", 1)
        ELSE IF outcome.kind = "status" /\ outcome.status_code = 403
        THEN Fail("Finnhub 403 (throttle/closed)", 1)
        ELSE IF outcome.kind = "status" THEN Fail("Finnhub HTTP", 1)
        ELSE IF outcome.kind = "bad_body"
        THEN FetchResult(None, NoneStr, cache, 1, FALSE, TRUE)
        ELSE IF outcome.kind = "no_data" THEN Fail("Finnhub no data", 1)
        ELSE IF empty(outcome.df) THEN Fail("Finnhub empty", 1)
        ELSE FetchResult(outcome.df, NoneStr,
                         [cache EXCEPT ![symbol] = [t |-> now_epoch, df |-> outcome.df]],
                         1, FALSE, FALSE)

\* fetch_finnhub_5m(symbol): the cache check, then the key check, then one
\* request and what its answer leads to; only a frame with rows is cached.
fetch_finnhub_5m(symbol, now_epoch, cache, finnhub_key, outcome) ==
    LET cache_entry == cache[symbol]
        Fail(err, n) == FetchResult(None, err, cache, n, FALSE, FALSE)
    IN  IF cache_entry # None /\ now_epoch - cache_entry.t < CACHE_TTL
        THEN FetchResult(cache_entry.df, NoneStr, cache, 0, TRUE, FALSE)
        ELSE IF ~finnhub_key THEN Fail("No FINNHUB_KEY in secrets", 0)
        ELSE IF outcome.kind = "raise" THEN Fail("Finnhub network error", 1)
        ELSE IF outcome.kind = "status" /\ outcome.status_code = 403
        THEN Fail("Finnhub 403 (throttle/closed)", 1)
        ELSE IF outcome.kind = "status" THEN Fail("Finnhub HTTP", 1)
        ELSE IF outcome.kind = "bad_body"
        THEN FetchResult(None, NoneStr, cache, 1, FALSE, TRUE)
        ELSE IF outcome.kind = "no_data" THEN Fail("Finnhub no data", 1)
        ELSE IF empty(outcome.df) THEN Fail("Finnhub empty", 1)
        ELSE FetchResult(outcome.df, NoneStr,
                         [cache EXCEPT ![symbol] = [t |-> now_epoch, df |-> outcome.df]],
                         1, FALSE, FALSE)

\* fetch_polygon_5m(symbol): the key check, one request, and a frame with rows
\* is put in candle_cache under time.time().
fetch_polygon_5m(symbol, now_epoch, cache, polygon_key, outcome) ==
    LET Fail(err, n) == FetchResult(None, err, cache, n, FALSE, FALSE)
    IN  IF ~polygon_key THEN Fail("No POLYGON_KEY", 0)
        ELSE IF outcome.kind = "raise" THEN Fail("Polygon network error", 1)
        ELSE IF outcome.kind = "status" THEN Fail("Polygon HTTP", 1)
        ELSE IF outcome.kind = "bad_body"
        THEN FetchResult(None, NoneStr, cache, 1, FALSE, TRUE)
        ELSE IF outcome.kind = "no_data" THEN Fail("Polygon no data", 1)
        ELSE IF empty(outcome.df) THEN Fail("Polygon empty", 1)
        ELSE FetchResult(outcome.df, NoneStr,
                         [cache EXCEPT ![symbol] = [t |-> now_epoch, df |-> outcome.df]],
                         1, FALSE, FALSE)

\* A fetch function that was not called.
NotCalled == FetchResult(None, NoneStr, <<>>, 0, FALSE, FALSE)

IntradayResult(df, source_name, err, f, p) ==
    [df |-> df, source |-> source_name, err |-> err,
     raised |-> f.raised \/ p.raised,
     cache |-> IF p = NotCalled THEN f.cache ELSE p.cache,
     finnhub |-> f, polygon |-> p]

\* get_intraday_5m handing the Finnhub error back along with Polygon's frame.
get_intraday_5m_keep_err(symbol, now_epoch, cache, finnhub_key, polygon_key, fo, po) ==
    LET f == fetch_finnhub_5m(symbol, now_epoch, cache, finnhub_key, fo)
        p == fetch_polygon_5m(symbol, now_epoch, f.cache, polygon_key, po)
    IN  IF f.raised THEN IntradayResult(None, NoneStr, NoneStr, f, NotCalled)
        ELSE IF f.df # None THEN IntradayResult(f.df, "finnhub", NoneStr, f, NotCalled)
        ELSE IF f.err # NoneStr /\ polygon_key
        THEN IF p.raised THEN IntradayResult(None, NoneStr, NoneStr, f, p)
             ELSE IF p.df # None THEN IntradayResult(p.df, "polygon", f.err, f, p)
             ELSE IntradayResult(None, NoneStr, "Finnhub:err / Polygon:err2", f, p)
        ELSE IntradayResult(None, NoneStr, f.err, f, NotCalled)

\* get_intraday_5m(symbol): Finnhub first; Polygon if that gave no frame but an
\* error and POLYGON_KEY is set; (df, source_name, err).
get_intraday_5m(symbol, now_epoch, cache, finnhub_key, polygon_key, fo, po) ==
    LET f == fetch_finnhub_5m(symbol, now_epoch, cache, finnhub_key, fo)
        p == fetch_polygon_5m(symbol, now_epoch, f.cache, polygon_key, po)
    IN  IF f.raised THEN IntradayResult(None, NoneStr, NoneStr, f, NotCalled)
        ELSE IF f.df # None THEN IntradayResult(f.df, "finnhub", NoneStr, f, NotCalled)
        ELSE IF f.err # NoneStr /\ polygon_key
        THEN IF p.raised THEN IntradayResult(None, NoneStr, NoneStr, f, p)
             ELSE IF p.df # None THEN IntradayResult(p.df, "polygon", NoneStr, f, p)
             ELSE IntradayResult(None, NoneStr, "Finnhub:err / Polygon:err2", f, p)
        ELSE IntradayResult(None, NoneStr, f.err, f, NotCalled)

---------------------------------------------------------------------------
(* range_trader_app.py: the dashboard *)

\* share_qty: the "Trade Quantity" widget at its default.
DefaultQty == 1

\* What the user can type into "Ticker Symbol", and str.upper() of it.
TypedSymbols == {"spy", "xyz"}
upper(t) == IF t \in {"SPY", "spy"} THEN "SPY" ELSE "XYZ"

\* suggest_stocks_watchlist: the symbols it fetches, in order.
WATCHLIST == <<"SPY", "TSLA", "NVDA", "AAPL", "AMD", "QQQ", "IWM">>

\* get_finnhub_candles(symbol): (df, err), with err "" for None; raised when
\* requests.get raised; requests counts the HTTP requests it issued.
get_finnhub_candles(symbol, outcome) ==
    IF ~FINNHUB_KEY
    THEN [df |-> None, err |-> "No FINNHUB_KEY in secrets", raised |-> FALSE, requests |-> 0]
    ELSE IF outcome.kind = "raise"
    THEN [df |-> None, err |-> "", raised |-> TRUE, requests |-> 1]
    ELSE IF outcome.kind = "http_error"
    THEN [df |-> None, err |-> "Finnhub error", raised |-> FALSE, requests |-> 1]
    ELSE IF outcome.kind = "no_data"
    THEN [df |-> None, err |-> "No candle data", raised |-> FALSE, requests |-> 1]
    ELSE [df |-> outcome.df, err |-> "", raised |-> FALSE, requests |-> 1]

\* r.status_code == 200 or r.status_code == 201
acknowledged(r) == r.status_code = 200 \/ r.status_code = 201

NothingDone == [orders |-> <<>>, entries |-> <<>>, report |-> "", raised |-> FALSE]

\* One order call that logs its entry whatever the answer's status is.
OrderStep_log_always(origin, side, message, symbol, qty, mode, outcome) ==
    [orders |-> <<[origin |-> origin, side |-> side, symbol |-> symbol, qty |-> qty,
                   outcome |-> outcome]>>,
     entries |-> IF ~outcome.raised
                 THEN <<[message |-> message, qty |-> qty, symbol |-> symbol, mode |-> mode]>>
                 ELSE <<>>,
     report |-> IF outcome.raised THEN "exception"
                ELSE IF acknowledged(outcome) THEN "sent" ELSE "failed",
     raised |-> outcome.raised]

\* One place_alpaca_order call and what follows it: the order sent, the log
\* entry on 200/201, the message shown, and whether requests.post raised.
OrderStep(origin, side, message, symbol, qty, mode, outcome) ==
    [orders |-> <<[origin |-> origin, side |-> side, symbol |-> symbol, qty |-> qty,
                   outcome |-> outcome]>>,
     entries |-> IF ~outcome.raised /\ acknowledged(outcome)
                 THEN <<[message |-> message, qty |-> qty, symbol |-> symbol, mode |-> mode]>>
                 ELSE <<>>,
     report |-> IF outcome.raised THEN "exception"
                ELSE IF acknowledged(outcome) THEN "sent" ELSE "failed",
     raised |-> outcome.raised]

\* The branch on mode with the `if auto:` tests taken out.
AutoTradeApp_any_flag(symbol, qty, auto, mode, outcome) ==
    IF mode = "BREAKOUT"
    THEN OrderStep("auto", "buy", "AUTO BUY", symbol, qty, "BREAKOUT", outcome)
    ELSE IF mode = "BREAKDOWN"
    THEN OrderStep("auto", "sell", "AUTO SELL", symbol, qty, "BREAKDOWN", outcome)
    ELSE NothingDone

\* show_dashboard, the branch on mode: BREAKOUT with auto on buys, BREAKDOWN
\* with auto on sells, anything else sends nothing.
AutoTradeApp(symbol, qty, auto, mode, outcome) ==
    IF mode = "BREAKOUT"
    THEN IF auto
         THEN OrderStep("auto", "buy", "AUTO BUY", symbol, qty, "BREAKOUT", outcome)
         ELSE NothingDone
    ELSE IF mode = "BREAKDOWN"
    THEN IF auto
         THEN OrderStep("auto", "sell", "AUTO SELL", symbol, qty, "BREAKDOWN", outcome)
         ELSE NothingDone
    ELSE NothingDone

\* show_dashboard, the manual buttons: `if buy_btn:` then `if sell_btn:`.
ManualTradeApp(symbol, qty, buy_btn, sell_btn, outcome) ==
    LET b == IF buy_btn
             THEN OrderStep("manual", "buy", "MANUAL BUY", symbol, qty, "", outcome)
             ELSE NothingDone
        s == IF sell_btn /\ ~b.raised
             THEN OrderStep("manual", "sell", "MANUAL SELL", symbol, qty, "", outcome)
             ELSE NothingDone
    IN  [orders |-> b.orders \o s.orders,
         entries |-> b.entries \o s.entries,
         report |-> IF s.report # "" THEN s.report ELSE b.report,
         raised |-> b.raised \/ s.raised]

\* calc_range_levels(df_live) with its defaults, tabulated once over the frames
\* the feed can carry and the absent frame.
AppLevelsOf == [f \in DashFrames \cup {None} |->
                    calc_range_levels(f, ATR_LOOKBACK, CUSHION_FRAC_PCT)]

\* The live-data step with a second request after an error answer.
LiveDataApp_retry(symbol, feed) ==
    LET got == get_finnhub_candles(symbol, feed)
    IN  [fin_err |-> got.err,
         raised |-> got.raised,
         requests |-> IF got.err # "" THEN 2 * got.requests ELSE got.requests,
         stats |-> IF got.raised THEN None
                   ELSE IF got.err = ""
                        THEN AppLevelsOf[got.df]
                        ELSE None]

\* The live-data step: one get_finnhub_candles call, then
\* stats = calc_range_levels(df_live) if not fin_err else None.
LiveDataApp(symbol, feed) ==
    LET got == get_finnhub_candles(symbol, feed)
    IN  [fin_err |-> got.err,
         raised |-> got.raised,
         requests |-> got.requests,
         stats |-> IF got.raised THEN None
                   ELSE IF got.err = ""
                        THEN AppLevelsOf[got.df]
                        ELSE None]

\* The count of auto orders sent while the mode stays the same on one symbol
\* with auto-trade on, over consecutive runs.
NextStreak(old, symbol, auto, mode, autos) ==
    IF auto /\ mode \in {"BREAKOUT", "BREAKDOWN"}
    THEN IF old.symbol = symbol /\ old.mode = mode
         THEN [old EXCEPT !.n = @ + Len(autos)]
         ELSE [symbol |-> symbol, mode |-> mode, n |-> Len(autos)]
    ELSE NoStreak

\* The fences of the first run that computed levels since the symbol was last
\* changed.
NextWatch(old, symbol, stats) ==
    LET kept == IF old # NoWatch /\ old.symbol = symbol THEN old ELSE NoWatch
    IN  IF kept = NoWatch /\ stats # None
        THEN [tag |-> "watch", symbol |-> symbol, high_fence |-> stats.high_fence,
              low_fence |-> stats.low_fence]
        ELSE kept

\* Dashboard runs of one behaviour.
MaxRuns == 2

\* What made Streamlit run the script again: a timed or manual refresh, an
\* edit of the symbol, a click on the auto-trade box or on one button.
Triggers == {"refresh", "symbol", "toggle_auto", "buy", "sell", "scan"}

\* main() -> show_dashboard() of range_trader_app.py, one whole script run.
ShowDashboardApp(trigger, typed, feed, acct, ord_auto, ord_manual, scan_n) ==
    /\ script = "range_trader_app"
    /\ logged_in
    /\ nruns < MaxRuns
    /\ LET text == IF trigger = "symbol" THEN typed ELSE w_symbol
           symbol == upper(text)
           share_qty == DefaultQty
           auto == IF trigger = "toggle_auto" THEN ~auto_trade[user] ELSE auto_trade[user]
           live == LiveDataApp(symbol, feed)
           acct_raised == ~live.raised /\ acct = "raise"
           reached == ~live.raised /\ ~acct_raised
           mode == IF reached /\ live.stats # None
                   THEN breakout_status(live.stats.last_price, live.stats.high_fence,
                                        live.stats.low_fence)
                   ELSE "None"
           auto_step == AutoTradeApp(symbol, share_qty, auto, mode, ord_auto)
           manual == IF reached /\ ~auto_step.raised
                     THEN ManualTradeApp(symbol, share_qty, trigger = "buy",
                                         trigger = "sell", ord_manual)
                     ELSE NothingDone
           scanned == IF reached /\ ~auto_step.raised /\ ~manual.raised
                         /\ trigger = "scan" /\ FINNHUB_KEY
                      THEN SubSeq(WATCHLIST, 1, scan_n)
                      ELSE <<>>
           entries == auto_step.entries \o manual.entries
       IN  /\ w_symbol' = text
           /\ auto_trade' = [auto_trade EXCEPT ![user] = auto]
           /\ trade_log' = LogEach(trade_log, user, entries)
           /\ cycle' = [tag |-> "run",
                        symbol |-> symbol,
                        auto_flag |-> auto,
                        fin_err |-> live.fin_err,
                        feed_raised |-> live.raised,
                        raised |-> live.raised \/ acct_raised \/ auto_step.raised
                                    \/ manual.raised,
                        stats |-> IF reached THEN live.stats ELSE None,
                        mode |-> mode,
                        orders |-> auto_step.orders \o manual.orders,
                        auto_report |-> auto_step.report,
                        live_requests |-> live.requests,
                        scan_requests |-> scanned]
           /\ streak' = NextStreak(streak, symbol, auto, mode, auto_step.orders)
           /\ watched' = NextWatch(watched, symbol, IF reached THEN live.stats ELSE None)
           /\ nruns' = nruns + 1
    /\ UNCHANGED <<script, FINNHUB_KEY, logged_in, user, entered, harnessVars, trackVars>>

\* main() -> show_dashboard() of range_trader.py: line 518 calls
\* apply_user_theme, a name the script never defines (it defines apply_theme),
\* so the run ends there with a NameError, before any widget, fetch or order.
ShowDashboardRT ==
    /\ script = "range_trader"
    /\ logged_in
    /\ nruns < MaxRuns
    /\ cycle' = [tag |-> "run",
                 symbol |-> "",
                 auto_flag |-> auto_trade[user],
                 fin_err |-> "",
                 feed_raised |-> FALSE,
                 raised |-> TRUE,
                 stats |-> None,
                 mode |-> "None",
                 orders |-> <<>>,
                 auto_report |-> "",
                 live_requests |-> 0,
                 scan_requests |-> <<>>]
    /\ nruns' = nruns + 1
    /\ UNCHANGED <<script, FINNHUB_KEY, sessionVars, w_symbol, streak, entered, watched,
                   harnessVars, trackVars>>

\* What can be typed into the login form.
TypedUsers == {"dad", "neil", "mallory"}
TypedPins == {"1234", "1111", "2222", ""}

\* The Log In button with the PIN comparison left out.
ShowLogin_any_pin(username, pin, login_btn) ==
    /\ ~logged_in
    /\ IF login_btn /\ username \in DOMAIN USER_PINS(script)
       THEN /\ logged_in' = TRUE
            /\ user' = username
       ELSE UNCHANGED <<logged_in, user>>
    /\ entered' = IF login_btn THEN [username |-> username, pin |-> pin] ELSE entered
    /\ UNCHANGED <<script, FINNHUB_KEY, trade_log, auto_trade, w_symbol, nruns, cycle,
                   streak, watched, harnessVars, trackVars>>

\* main() -> show_login(), both scripts: the Log In button with a username
\* (stripped, lower-cased) and a PIN.
ShowLogin(username, pin, login_btn) ==
    /\ ~logged_in
    /\ IF login_btn /\ username \in DOMAIN USER_PINS(script) /\ pin = USER_PINS(script)[username]
       THEN /\ logged_in' = TRUE
            /\ user' = username
       ELSE UNCHANGED <<logged_in, user>>
    /\ entered' = IF login_btn THEN [username |-> username, pin |-> pin] ELSE entered
    /\ UNCHANGED <<script, FINNHUB_KEY, trade_log, auto_trade, w_symbol, nruns, cycle,
                   streak, watched, harnessVars, trackVars>>

Init ==
    /\ script \in Scripts
    /\ FINNHUB_KEY \in BOOLEAN
    /\ init_state
    /\ w_symbol = "SPY"
    /\ nruns = 0
    /\ cycle = NotRun
    /\ streak = NoStreak
    /\ entered = NotRun
    /\ watched = NoWatch
    /\ HarnessCalcIdle
    /\ HarnessClassIdle
    /\ HarnessFetchIdle
    /\ TrackIdle

\* An outcome for a call the run does not make.
Unused == [raised |-> FALSE, status_code |-> 200]

Next ==
    \/ \E username \in TypedUsers, pin \in TypedPins, login_btn \in BOOLEAN :
            ShowLogin(username, pin, login_btn)
    \/ \E trigger \in Triggers, feed \in FeedOutcomes, acct \in AcctOutcomes :
        \E typed \in (IF trigger = "symbol" THEN TypedSymbols ELSE {w_symbol}),
           ord_auto \in (IF feed.kind = "ok" THEN OrderOutcomes ELSE {Unused}),
           ord_manual \in (IF trigger \in {"buy", "sell"} THEN OrderOutcomes ELSE {Unused}),
           scan_n \in (IF trigger = "scan" THEN {1, Len(WATCHLIST)} ELSE {Len(WATCHLIST)}) :
            ShowDashboardApp(trigger, typed, feed, acct, ord_auto, ord_manual, scan_n)
    \/ ShowDashboardRT

Spec == Init /\ [][Next]_vars

---------------------------------------------------------------------------
(* Session tracker: one session driven through start, evaluate, settle, reset *)

\* Largest price handed to the tracker.
MaxPrice == 4

\* Largest fence a session is started with.
MaxFence == 3

TrackPrices == 0..MaxPrice
TrackFences == 1..MaxFence
PayoutSizes == {100, 250}
DollarsPerPoint == {10}

\* The crossings record after evaluate was called with price p on session s.
NoteCrossing(c, s, p) ==
    IF ~s.tracking THEN c
    ELSE
    LET up == p > s.high_fence
        down == p < s.low_fence
    IN  [first_high |-> IF up /\ c.first_high = Null THEN p ELSE c.first_high,
         last_high |-> IF up THEN p ELSE c.last_high,
         back_high |-> c.back_high \/ (~up /\ c.first_high # Null),
         again_high |-> c.again_high \/ (up /\ c.back_high),
         first_low |-> IF down /\ c.first_low = Null THEN p ELSE c.first_low,
         last_low |-> IF down THEN p ELSE c.last_low,
         back_low |-> c.back_low \/ (~down /\ c.first_low # Null),
         again_low |-> c.again_low \/ (down /\ c.back_low),
         order |-> IF c.order # "" THEN c.order
                   ELSE IF up /\ down THEN "together"
                   ELSE IF up THEN "high_first"
                   ELSE IF down THEN "low_first" ELSE ""]

\* IDLE --start(fences)--> TRACKING
StartTracking(high_fence, low_fence) ==
    /\ state_of(session) = "IDLE"
    /\ session' = start("SPY", high_fence, low_fence)
    /\ crossings' = NoCrossings
    /\ last_call' = [op |-> "start", before |-> session, high_fence |-> high_fence,
                     low_fence |-> low_fence]
    /\ UNCHANGED <<harnessVars, appVars>>

\* evaluate(session, price), in any state.
Evaluate(current_price) ==
    /\ session' = evaluate(session, current_price)
    /\ crossings' = NoteCrossing(crossings, session, current_price)
    /\ last_call' = [op |-> "evaluate", before |-> session, current_price |-> current_price]
    /\ UNCHANGED <<harnessVars, appVars>>

\* TRACKING --settle(final_price)--> SETTLED
Settle(final_price, payout_size, dollars_per_point) ==
    /\ state_of(session) = "TRACKING"
    /\ session' = settle(session, final_price, payout_size, dollars_per_point)
    /\ last_call' = [op |-> "settle", before |-> session, final_price |-> final_price,
                     payout_size |-> payout_size, dollars_per_point |-> dollars_per_point]
    /\ UNCHANGED <<crossings, harnessVars, appVars>>

\* SETTLED --reset--> IDLE
Reset ==
    /\ state_of(session) = "SETTLED"
    /\ session' = IdleSession
    /\ crossings' = NoCrossings
    /\ last_call' = [op |-> "reset", before |-> session]
    /\ UNCHANGED <<harnessVars, appVars>>

InitSession ==
    /\ TrackIdle
    /\ HarnessCalcIdle
    /\ HarnessClassIdle
    /\ HarnessFetchIdle
    /\ AppIdle

NextSession ==
    \/ \E high_fence \in TrackFences, low_fence \in TrackFences :
            StartTracking(high_fence, low_fence)
    \/ \E current_price \in TrackPrices : Evaluate(current_price)
    \/ \E final_price \in TrackPrices, payout_size \in PayoutSizes,
          dollars_per_point \in DollarsPerPoint :
            Settle(final_price, payout_size, dollars_per_point)
    \/ Reset

SpecSession == InitSession /\ [][NextSession]_vars

---------------------------------------------------------------------------
(* Harness for the cached fetch: calls and the passing of time *)

\* The latest time of one behaviour, in seconds.
MaxClock == 60

\* How much time passes between two calls.
Delays == {30, 59}

\* The vendor whose response the frame a call returned was built from.
FrameFrom(hit, symbol, vendor) == IF hit THEN cache_from[symbol] ELSE vendor

\* What a fetch function returned and sent, without the cache it left.
Did(f) == [df |-> f.df, err |-> f.err, requests |-> f.requests, hit |-> f.hit,
           called |-> f # NotCalled]

\* Time since Finnhub was last sent a request for the symbol, or Never.
GapSince(symbol) == IF last_req[symbol] = Never THEN Never ELSE clock - last_req[symbol]

\* fetch_finnhub_5m(symbol) called at the current time.
CallFetchFinnhub(symbol, fo) ==
    LET f == fetch_finnhub_5m(symbol, clock, candle_cache, FINNHUB_KEY, fo)
    IN  /\ candle_cache' = f.cache
        /\ cache_from' = IF f.cache # candle_cache
                         THEN [cache_from EXCEPT ![symbol] = "finnhub"] ELSE cache_from
        /\ last_req' = IF f.requests > 0 THEN [last_req EXCEPT ![symbol] = clock] ELSE last_req
        /\ fetched' = [fn |-> "fetch_finnhub_5m", symbol |-> symbol, now |-> clock,
                       before |-> candle_cache[symbol],
                       df |-> f.df, source |-> NoneStr, err |-> f.err, raised |-> f.raised,
                       finnhub |-> Did(f), polygon |-> Did(NotCalled),
                       gap |-> GapSince(symbol),
                       from |-> IF f.df = None THEN ""
                                ELSE FrameFrom(f.hit, symbol, "finnhub")]
        /\ UNCHANGED <<clock, POLYGON_KEY, harnessCalcVars, harnessClassVars, appVars, trackVars>>

\* get_intraday_5m(symbol) called at the current time.
CallGetIntraday(symbol, fo, po) ==
    LET g == get_intraday_5m(symbol, clock, candle_cache, FINNHUB_KEY, POLYGON_KEY, fo, po)
        stored_by == IF g.polygon.cache # g.finnhub.cache /\ g.polygon # NotCalled
                     THEN "polygon"
                     ELSE IF g.finnhub.cache # candle_cache THEN "finnhub" ELSE ""
    IN  /\ candle_cache' = g.cache
        /\ cache_from' = IF stored_by # ""
                         THEN [cache_from EXCEPT ![symbol] = stored_by] ELSE cache_from
        /\ last_req' = IF g.finnhub.requests > 0
                       THEN [last_req EXCEPT ![symbol] = clock] ELSE last_req
        /\ fetched' = [fn |-> "get_intraday_5m", symbol |-> symbol, now |-> clock,
                       before |-> candle_cache[symbol],
                       df |-> g.df, source |-> g.source, err |-> g.err, raised |-> g.raised,
                       finnhub |-> Did(g.finnhub), polygon |-> Did(g.polygon),
                       gap |-> GapSince(symbol),
                       from |-> IF g.df = None THEN ""
                                ELSE IF g.polygon # NotCalled /\ g.polygon.df # None
                                THEN "polygon"
                                ELSE FrameFrom(g.finnhub.hit, symbol, "finnhub")]
        /\ UNCHANGED <<clock, POLYGON_KEY, harnessCalcVars, harnessClassVars, appVars, trackVars>>

\* Time passes.
Advance(d) ==
    /\ clock + d <= MaxClock
    /\ clock' = clock + d
    /\ UNCHANGED <<POLYGON_KEY, candle_cache, cache_from, last_req, fetched,
                   harnessCalcVars, harnessClassVars, appVars, trackVars>>

InitFetch ==
    /\ script = "range_trader"
    /\ FINNHUB_KEY \in BOOLEAN
    /\ POLYGON_KEY \in BOOLEAN
    /\ EmptyCache
    /\ FreshSession
    /\ HarnessCalcIdle
    /\ HarnessClassIdle
    /\ TrackIdle

\* An answer for a request that is not sent.
NoAnswer == [kind |-> "no_data", status_code |-> 0, df |-> None]

\* The answers Finnhub can give a call for symbol now, if the call asks at all.
FinnhubAnswers(symbol) ==
    IF fetch_finnhub_5m(symbol, clock, candle_cache, FINNHUB_KEY, NoAnswer).requests > 0
    THEN FinnhubOutcomes ELSE {NoAnswer}

\* The answers Polygon can give, if get_intraday_5m asks it after Finnhub's fo.
PolygonAnswers(symbol, fo) ==
    IF get_intraday_5m(symbol, clock, candle_cache, FINNHUB_KEY, POLYGON_KEY, fo,
                       NoAnswer).polygon.requests > 0
    THEN PolygonOutcomes ELSE {NoAnswer}

NextFetch ==
    \/ \E symbol \in FetchSymbols :
        \E fo \in FinnhubAnswers(symbol) : CallFetchFinnhub(symbol, fo)
    \/ \E symbol \in FetchSymbols :
        \E fo \in FinnhubAnswers(symbol) :
        \E po \in PolygonAnswers(symbol, fo) : CallGetIntraday(symbol, fo, po)
    \/ \E d \in Delays : Advance(d)

SpecFetch == InitFetch /\ [][NextFetch]_vars

---------------------------------------------------------------------------
(* Claims about the classifier and the range calculator *)

ModeSet == {"BREAKOUT", "BREAKDOWN", "RANGE_HELD"}

IsLevels(lv) == lv # NotRun /\ lv # None

\* Both calculators' results for df_in, once computed.
LevelResults == {lv \in {rt_levels, app_levels} : IsLevels(lv)}

IsNumericBar(b) == ~isna(b.High) /\ ~isna(b.Low) /\ ~isna(b.Close)
IsNumericFrame(df) == \A i \in DOMAIN df.rows : IsNumericBar(df.rows[i])
IsWellFormedFrame(df) ==
    \A i \in DOMAIN df.rows : IsNumericBar(df.rows[i]) /\ df.rows[i].High >= df.rows[i].Low

\* What C1 says of one classifier result m for the arguments cl_args.
C1_Characterised(m) ==
    LET p == cl_args.last_price
        h == cl_args.high_fence
        l == cl_args.low_fence
    IN  FGe(h, l) =>
            /\ m \in ModeSet
            /\ (m = "BREAKOUT") <=> FGt(p, h)
            /\ (m = "BREAKDOWN") <=> FLt(p, l)
            /\ (m = "RANGE_HELD") <=> (~FGt(p, h) /\ ~FLt(p, l))
            /\ (p = h \/ p = l) => m = "RANGE_HELD"

\* C1: for every (last_price, high_fence, low_fence) with high_fence >= low_fence,
\* classify_mode and breakout_status return exactly one of the three modes:
\* BREAKOUT iff last_price > high_fence, BREAKDOWN iff last_price < low_fence,
\* RANGE_HELD otherwise; a price equal to a fence is RANGE_HELD.
C1_ClassifierTotalTieHeld ==
    /\ cl_rt # "NotRun" => C1_Characterised(cl_rt)
    /\ cl_app # "NotRun" => C1_Characterised(cl_app)

\* Both classifiers ran on a price sitting exactly on the high fence of a
\* non-empty range.
C1_Witness ==
    /\ cl_rt = "RANGE_HELD"
    /\ cl_app = "RANGE_HELD"
    /\ cl_args.last_price = cl_args.high_fence
    /\ FGt(cl_args.high_fence, cl_args.low_fence)

\* C2: both range calculators return None for an absent frame and for every
\* frame of fewer than 6 bars, and a result for a frame of exactly 6 bars.
C2_NoneBelowSixBars ==
    \A lv \in {rt_levels, app_levels} :
        lv # NotRun =>
            /\ (df_in = None \/ len(df_in) < 6) => lv = None
            /\ (df_in # None /\ len(df_in) = 6) => lv # None

\* max of High / min of Low over rows 1..6, stated without the calculators.
MaxHighFirst6(df) ==
    CHOOSE m \in {df.rows[i].High : i \in 1..6} : \A i \in 1..6 : m >= df.rows[i].High
MinLowFirst6(df) ==
    CHOOSE m \in {df.rows[i].Low : i \in 1..6} : \A i \in 1..6 : m <= df.rows[i].Low

\* C3: for every frame of at least 6 (numeric) bars, high_fence is the max of
\* High over the first 6 bars plus atr * 0.25 (atr / 4), low_fence is the min of
\* Low over the first 6 bars minus atr * 0.25, and the bars after the sixth do not
\* change opening_high or opening_low.
C3_FencesFromFirstSix ==
    \A lv \in LevelResults :
        (len(df_in) >= 6 /\ IsNumericFrame(df_in)) =>
            LET six == calc_levels(df_head(df_in, 6), ATR_LOOKBACK, CUSHION_FRAC_PCT)
            IN  /\ lv.opening_high = MaxHighFirst6(df_in) * Scale
                /\ lv.opening_low = MinLowFirst6(df_in) * Scale
                /\ 4 * lv.high_fence = 4 * MaxHighFirst6(df_in) * Scale + lv.atr
                /\ 4 * lv.low_fence = 4 * MinLowFirst6(df_in) * Scale - lv.atr
                /\ lv.opening_high = six.opening_high
                /\ lv.opening_low = six.opening_low

\* calc_levels ran on a frame whose later bars reach above the opening high
\* and below the opening low.
C3_Witness ==
    /\ IsLevels(rt_levels)
    /\ IsNumericFrame(df_in)
    /\ \E i \in DOMAIN df_in.rows : i > 6 /\ df_in.rows[i].High * Scale > rt_levels.opening_high
    /\ \E i \in DOMAIN df_in.rows : i > 6 /\ df_in.rows[i].Low * Scale < rt_levels.opening_low

\* Rows of the last min(len, atr_lookback) bars, and the sum of High - Low there.
TailRows(df) == {i \in DOMAIN df.rows : i > len(df) - ATR_LOOKBACK}

RECURSIVE SumHL(_, _)
SumHL(df, idx) ==
    IF idx = {} THEN 0
    ELSE LET i == CHOOSE j \in idx : TRUE
         IN  (df.rows[i].High - df.rows[i].Low) + SumHL(df, idx \ {i})

\* C4: for every frame of at least 6 bars atr is the mean of High - Low over the
\* last min(len, 14) bars, except that a mean of exactly zero, or an undefined
\* one, gives 1.0; a frame whose bars all have High == Low has atr 1.0 and
\* fences opening_high + 0.25 and opening_low - 0.25.
C4_AtrIsTailMeanOrOne ==
    \A lv \in LevelResults :
        len(df_in) >= 6 =>
            LET idx == TailRows(df_in)
                numeric == {i \in idx : IsNumericBar(df_in.rows[i])}
                n == Cardinality(idx)
            IN  /\ n = Min2(len(df_in), 14)
                /\ (numeric = idx /\ SumHL(df_in, idx) # 0) =>
                        lv.atr * n = SumHL(df_in, idx) * Scale
                /\ (numeric = idx /\ SumHL(df_in, idx) = 0) => lv.atr = Scale
                /\ numeric = {} => lv.atr = Scale
                /\ (IsNumericFrame(df_in) /\ \A i \in DOMAIN df_in.rows :
                                                df_in.rows[i].High = df_in.rows[i].Low) =>
                        /\ lv.atr = Scale
                        /\ 4 * lv.high_fence = 4 * lv.opening_high + Scale
                        /\ 4 * lv.low_fence = 4 * lv.opening_low - Scale

\* Both calculators ran on a frame longer than the lookback whose first bar
\* (outside the tail) has another High - Low than its last.
C4_Witness ==
    /\ IsLevels(rt_levels)
    /\ IsLevels(app_levels)
    /\ IsNumericFrame(df_in)
    /\ len(df_in) > ATR_LOOKBACK
    /\ df_in.rows[1].High - df_in.rows[1].Low # df_in.rows[len(df_in)].High - df_in.rows[len(df_in)].Low
    /\ rt_levels.atr # Scale

FenceOrder(lv) ==
    /\ FGe(lv.high_fence, lv.opening_high)
    /\ FGe(lv.opening_high, lv.opening_low)
    /\ FGe(lv.opening_low, lv.low_fence)

\* C5 as stated: every result of the range calculator has
\* high_fence >= opening_high >= opening_low >= low_fence.  Stated here for
\* calc_levels on frames of numeric candles and results with atr > 0, so that
\* a violation rests neither on a null field nor on a negative cushion.
C5_FenceOrderEverySeries ==
    (IsLevels(rt_levels) /\ IsNumericFrame(df_in) /\ rt_levels.atr > 0)
        => FenceOrder(rt_levels)

\* C5 as amended: every result for a frame whose bars are numeric with
\* High >= Low has high_fence >= opening_high >= opening_low >= low_fence.
C5_FenceOrderWellFormed ==
    \A lv \in LevelResults : IsWellFormedFrame(df_in) => FenceOrder(lv)

\* calc_levels ran on a well-formed frame with a real opening range.
C5_Witness ==
    /\ IsLevels(rt_levels)
    /\ IsWellFormedFrame(df_in)
    /\ rt_levels.opening_high > rt_levels.opening_low
    /\ rt_levels.high_fence > rt_levels.opening_high
    /\ rt_levels.low_fence < rt_levels.opening_low

\* C6: every result of the range calculator has atr > 0, whatever the bars.
C6_AtrAlwaysPositive == \A lv \in LevelResults : FGt(lv.atr, 0)

---------------------------------------------------------------------------
(* Claims about the dashboard's evaluation cycle *)

HasRun == cycle # NotRun

\* The orders the auto-trade step of the latest run submitted.
AutoOrders == IF HasRun THEN SelectSeq(cycle.orders, LAMBDA o : o.origin = "auto") ELSE <<>>

\* C7: over consecutive dashboard runs for one symbol with auto-trade ON whose
\* mode is BREAKOUT (resp. BREAKDOWN) on every run, at most one auto BUY
\* (resp. SELL) order is submitted in total.
C7_AutoOrderOncePerStreak == streak.n <= 1

\* C8: in one run the auto-trade step submits an order only with the user's
\* auto-trade flag ON; BREAKOUT submits a buy, BREAKDOWN a sell, RANGE_HELD
\* nothing; at most one auto order is submitted, and one that fails is
\* reported and not sent again in that run.
C8_AutoStepByFlagAndMode ==
    HasRun =>
        /\ Len(AutoOrders) <= 1
        /\ AutoOrders # <<>> => cycle.auto_flag
        /\ \A i \in DOMAIN AutoOrders :
                \/ AutoOrders[i].side = "buy" /\ cycle.mode = "BREAKOUT"
                \/ AutoOrders[i].side = "sell" /\ cycle.mode = "BREAKDOWN"
        /\ cycle.mode \notin {"BREAKOUT", "BREAKDOWN"} => AutoOrders = <<>>
        /\ cycle.auto_flag /\ cycle.mode \in {"BREAKOUT", "BREAKDOWN"} => Len(AutoOrders) = 1
        /\ \A i \in DOMAIN AutoOrders :
                LET r == AutoOrders[i].outcome
                IN  /\ r.raised => cycle.auto_report = "exception"
                    /\ ~r.raised /\ ~acknowledged(r) => cycle.auto_report = "failed"
                    /\ ~r.raised /\ acknowledged(r) => cycle.auto_report = "sent"

\* A run with auto-trade ON in BREAKDOWN whose one sell order was refused.
C8_Witness ==
    /\ HasRun
    /\ cycle.auto_flag
    /\ cycle.mode = "BREAKDOWN"
    /\ Len(AutoOrders) = 1
    /\ AutoOrders[1].side = "sell"
    /\ cycle.auto_report = "failed"

---------------------------------------------------------------------------
(* Claims about the session tracker *)

\* C10: within one tracking session each latch is one-shot: it is true exactly
\* when some evaluate call of the session crossed its fence, so it never goes
\* back to false, and its price is the price of the first such call, even
\* after a pull-back and a second crossing.
C10_LatchesOneShot ==
    /\ session.breakout_triggered <=> crossings.first_high # Null
    /\ session.breakout_triggered => session.breakout_price = crossings.first_high
    /\ session.breakdown_triggered <=> crossings.first_low # Null
    /\ session.breakdown_triggered => session.breakdown_price = crossings.first_low

\* A tracking session that broke out, pulled back and broke out again at
\* another price.
C10_Witness ==
    /\ session.tracking
    /\ session.breakout_triggered
    /\ crossings.again_high
    /\ crossings.last_high # crossings.first_high
    /\ session.breakout_price = crossings.first_high

\* The latest tracker call was op.
Called(op) == last_call # NotRun /\ last_call.op = op

\* C11: settle decides by the first matching rule: neither latch gives
\* (RANGE_HELD, payout_size) whatever final_price is; breakout_triggered,
\* whatever breakdown_triggered is, gives (BREAKOUT, (final_price -
\* breakout_price) * dollars_per_point); breakdown_triggered alone gives
\* (BREAKDOWN, (breakdown_price - final_price) * dollars_per_point).
C11_SettleFirstMatchingRule ==
    Called("settle") =>
        LET b == last_call.before
            fp == last_call.final_price
            dpp == last_call.dollars_per_point
        IN  /\ ~b.breakout_triggered /\ ~b.breakdown_triggered =>
                /\ session.settlement_mode = "RANGE_HELD"
                /\ session.realized_pl = last_call.payout_size
            /\ b.breakout_triggered =>
                /\ session.settlement_mode = "BREAKOUT"
                /\ session.realized_pl = (fp - b.breakout_price) * dpp
            /\ ~b.breakout_triggered /\ b.breakdown_triggered =>
                /\ session.settlement_mode = "BREAKDOWN"
                /\ session.realized_pl = (b.breakdown_price - fp) * dpp

\* A session that broke down first, broke out later and was settled as BREAKOUT.
C11_Witness ==
    /\ Called("settle")
    /\ crossings.order = "low_first"
    /\ session.breakout_triggered
    /\ session.breakdown_triggered
    /\ session.settlement_mode = "BREAKOUT"
    /\ session.realized_pl = (last_call.final_price - session.breakout_price)
                                * last_call.dollars_per_point

\* C12: the session goes IDLE -> TRACKING -> SETTLED -> IDLE: settle sets
\* settlement_mode and realized_pl and then tracking = false; an evaluate call
\* made while tracking is false changes no field; start resets the latches and
\* captures the fences.
C12_SessionLifecycle ==
    last_call # NotRun =>
        LET b == last_call.before
        IN  /\ Called("evaluate") /\ ~b.tracking => session = b
            /\ Called("evaluate") /\ b.tracking => state_of(session) = "TRACKING"
            /\ Called("settle") =>
                /\ state_of(b) = "TRACKING"
                /\ state_of(session) = "SETTLED"
                /\ ~session.tracking
                /\ session.settlement_mode \in {"RANGE_HELD", "BREAKOUT", "BREAKDOWN"}
                /\ session = [b EXCEPT !.settlement_mode = session.settlement_mode,
                                       !.realized_pl = session.realized_pl,
                                       !.tracking = FALSE]
            /\ Called("start") =>
                /\ state_of(b) = "IDLE"
                /\ state_of(session) = "TRACKING"
                /\ ~session.breakout_triggered /\ ~session.breakdown_triggered
                /\ session.breakout_price = Null /\ session.breakdown_price = Null
                /\ session.high_fence = last_call.high_fence
                /\ session.low_fence = last_call.low_fence
            /\ Called("reset") => state_of(b) = "SETTLED" /\ state_of(session) = "IDLE"

\* evaluate called on a settled session with a price above a fence no latch
\* had recorded: nothing changed.
C12_Witness ==
    /\ Called("evaluate")
    /\ state_of(last_call.before) = "SETTLED"
    /\ last_call.current_price > session.high_fence
    /\ ~session.breakout_triggered
    /\ session = last_call.before

---------------------------------------------------------------------------
(* Claims about the fences across dashboard runs *)

\* C13: while one symbol stays on the dashboard, the fences its price is judged
\* against are those captured by the first run; later runs leave them
\* unchanged, whatever their candles are, and classify against them.
C13_FencesCapturedOnce ==
    HasRun /\ cycle.stats # None /\ watched # NoWatch /\ watched.symbol = cycle.symbol =>
        /\ cycle.stats.high_fence = watched.high_fence
        /\ cycle.stats.low_fence = watched.low_fence
        /\ cycle.mode = breakout_status(cycle.stats.last_price, watched.high_fence,
                                        watched.low_fence)

---------------------------------------------------------------------------
(* Claims about the cached candle fetch *)

HasFetched == fetched # NotRun

\* The age, at the latest call, of the entry candle_cache held for its symbol.
AgeBefore == fetched.now - fetched.before.t

\* C14: fetch_finnhub_5m returns the cached frame with err None and sends no
\* HTTP request whenever candle_cache holds an entry for the symbol younger than
\* 60 seconds; it sends Finnhub a request only when there is no entry for the
\* symbol or the entry is 60 seconds old or older.
C14_FreshCacheEntryIsReused ==
    HasFetched =>
        /\ fetched.before # None /\ AgeBefore < 60 =>
                /\ fetched.finnhub.df = fetched.before.df
                /\ fetched.finnhub.err = NoneStr
                /\ fetched.finnhub.requests = 0
                /\ candle_cache[fetched.symbol] = fetched.before
        /\ fetched.finnhub.requests > 0 => fetched.before = None \/ AgeBefore >= 60

\* Both sides of the age test: an entry 59 seconds old was reused with no
\* request, in a behaviour where the other symbol had no entry.
C14_Witness ==
    /\ HasFetched
    /\ fetched.fn = "fetch_finnhub_5m"
    /\ fetched.before # None
    /\ AgeBefore = 59
    /\ fetched.finnhub.hit
    /\ fetched.finnhub.requests = 0
    /\ \E other \in FetchSymbols \ {fetched.symbol} : candle_cache[other] = None

\* C15: across any calls of get_intraday_5m / fetch_finnhub_5m for one symbol,
\* two HTTP requests to Finnhub for that symbol are never less than 60 seconds
\* apart.
C15_FinnhubRequestsSpaced ==
    HasFetched /\ fetched.finnhub.requests > 0 /\ fetched.gap # Never => fetched.gap >= 60

\* C16: get_intraday_5m asks Polygon only if Finnhub gave no frame together
\* with an error and POLYGON_KEY is set; it returns (frame, source, None) with
\* source "finnhub" or "polygon", or (None, None, err) with an err, never both
\* a frame and an error, nor neither.
C16_IntradayResultShape ==
    HasFetched /\ fetched.fn = "get_intraday_5m" =>
        /\ fetched.finnhub.called
        /\ fetched.polygon.called =>
                /\ fetched.finnhub.df = None
                /\ fetched.finnhub.err # NoneStr
                /\ POLYGON_KEY
        /\ fetched.polygon.requests > 0 => fetched.polygon.called
        /\ ~fetched.raised =>
                \/ /\ fetched.df # None
                   /\ fetched.source \in {"finnhub", "polygon"}
                   /\ fetched.err = NoneStr
                \/ /\ fetched.df = None
                   /\ fetched.source = NoneStr
                   /\ fetched.err # NoneStr

\* Finnhub answered 403, Polygon was asked and its frame came back as
\* (frame, "polygon", None).
C16_Witness ==
    /\ HasFetched
    /\ fetched.fn = "get_intraday_5m"
    /\ fetched.finnhub.err = "Finnhub 403 (throttle/closed)"
    /\ fetched.polygon.requests = 1
    /\ fetched.df # None
    /\ fetched.source = "polygon"
    /\ fetched.err = NoneStr

\* C17: whenever get_intraday_5m returns source name "finnhub" the frame it
\* returns was built from a Finnhub response, and whenever "polygon", from a
\* Polygon response.
C17_SourceNamesTheVendor ==
    HasFetched /\ fetched.fn = "get_intraday_5m" /\ fetched.df # None =>
        fetched.source = fetched.from

---------------------------------------------------------------------------
(* Claims about the trade log and the login *)

\* The orders of run c that Alpaca answered with 200 or 201.
Acked(c) == SelectSeq(c.orders, LAMBDA o : ~o.outcome.raised /\ acknowledged(o.outcome))

\* The entry an acknowledged order is logged with.
EntryOf(o) ==
    [message |-> (IF o.origin = "auto" THEN "AUTO " ELSE "MANUAL ")
                    \o (IF o.side = "buy" THEN "BUY" ELSE "SELL"),
     qty |-> o.qty, symbol |-> o.symbol]

\* What one step may do to the logs: nothing outside a dashboard run; in a run,
\* one entry appended to the logged-in user's log for each acknowledged order,
\* in order, and nothing else touched.
LogStep ==
    IF nruns' = nruns
    THEN trade_log' = trade_log
    ELSE LET acked == Acked(cycle')
             old == trade_log[user]
             new == trade_log'[user]
         IN  /\ \A u \in Users \ {user} : trade_log'[u] = trade_log[u]
             /\ Len(new) = Len(old) + Len(acked)
             /\ SubSeq(new, 1, Len(old)) = old
             /\ \A i \in DOMAIN acked :
                    LET e == new[Len(old) + i]
                    IN  [message |-> e.message, qty |-> e.qty, symbol |-> e.symbol]
                            = EntryOf(acked[i])

\* C18: a trade-log entry is appended only when an order submission came back
\* with status 200 or 201, exactly one entry per such order, and only to the
\* log of the logged-in user; other users' logs are unchanged and no entry is
\* ever removed or modified.
C18_LogOnlyAcknowledged == [][LogStep]_vars

\* A second run that sent an auto order and a manual order, one acknowledged
\* and one refused, on top of a log that already had an entry.
C18_Witness ==
    /\ HasRun
    /\ nruns = 2
    /\ Len(cycle.orders) = 2
    /\ Len(Acked(cycle)) = 1
    /\ Len(trade_log[user]) = 2
    /\ \A u \in Users \ {user} : trade_log[u] = <<>>

\* The latest click on Log In named a configured user and that user's PIN.
ValidLogin ==
    /\ entered # NotRun
    /\ entered.username \in DOMAIN USER_PINS(script)
    /\ entered.pin = USER_PINS(script)[entered.username]

\* C19: logged_in implies that user is a username of USER_PINS and was set by
\* a Log In click whose PIN was that user's; a failed attempt leaves logged_in
\* False and user None; the dashboard runs, fetches and trades only when
\* logged_in is True.
C19_LoggedInMeansAuthenticated ==
    /\ logged_in =>
            /\ user \in DOMAIN USER_PINS(script)
            /\ ValidLogin
            /\ entered.username = user
    /\ entered # NotRun /\ ~ValidLogin => ~logged_in /\ user = NoUser
    /\ HasRun => logged_in
    /\ ~logged_in =>
            /\ user = NoUser
            /\ nruns = 0
            /\ cycle = NotRun
            /\ \A u \in Users : trade_log[u] = <<>>

\* neil, logged in to range_trader_app.py with PIN 2222, has sent an order.
C19_Witness ==
    /\ script = "range_trader_app"
    /\ logged_in
    /\ user = "neil"
    /\ entered = [username |-> "neil", pin |-> "2222"]
    /\ HasRun
    /\ cycle.orders # <<>>

===========================================================================
